---------------------------- MODULE Spec2Model ----------------------------
(***************************************************************************)
(* Grid trading engine (DavidMoralesTrademate/dinamic_grid).               *)
(*                                                                         *)
(* Three order managers are modelled, selected by the variable `variant`:  *)
(*   "bot"        src/bot/order_manager.py         (long bias, seeds buys) *)
(*   "bot_crypto" src/bot_crypto/order_manager.py  (short bias, seeds sells)*)
(*   "inverse"    src/inverse/order_manager.py     (short bias, seeds sells)*)
(*                                                                         *)
(* Arithmetic.  The code computes prices in binary floating point.  Here a *)
(* price is an integer number of units, one unit being                     *)
(* 10^-price_format / Sub, so a price rounded by format_price is a         *)
(* multiple of Sub and an unrounded product p * (1 +- spread) of such a    *)
(* price is represented exactly.  Every float operation rounds to the      *)
(* nearest unit; a ladder price * factor^i is computed by i successive     *)
(* products.  Amounts are integers in units of 10^-amount_format.          *)
(*                                                                         *)
(* The helpers of the short-bias managers (bot_crypto/helpers.py,          *)
(* inverse/helpers.py) are not part of the sources: calculate_order_       *)
(* prices_buy is taken from src/holiiiii.py and calculate_order_prices_sell *)
(* is its mirror image, as the specification describes it.                 *)
(***************************************************************************)
EXTENDS Integers, Sequences, FiniteSets, TLC

(***************************************************************************)
(* Configuration (src/init_prueba_14.py) and model bounds.                 *)
(***************************************************************************)
SpreadNum == 1
SpreadDen == 200
Notional == 1000
PriceScale == 100
AmountScale == 100
\* 1 / contract_size
ContractsPerUnit == 100
\* the longest backoff sleep, in seconds
MaxBackoff == 60

\* units per tick: the spread product of a rounded price is exact
Sub == SpreadDen
\* units per 1.0 of price
Unit == PriceScale * Sub

NoId == 0
NoPrice == -1

Variants == {"bot", "bot_crypto", "inverse"}
ShortVariants == {"bot_crypto", "inverse"}
Sides == {"buy", "sell"}
Statuses == {"open", "partially_filled", "filled", "closed", "canceled", "expired", "rejected"}

(***************************************************************************)
(* Helpers: rounding and the float operations of the code.                 *)
(***************************************************************************)
Max2(a, b) == IF a >= b THEN a ELSE b
Min2(a, b) == IF a <= b THEN a ELSE b

\* a / b rounded to the nearest integer, ties to even (Python's round)
RoundDiv(a, b) ==
    LET q == a \div b
        r == a % b
    IN  IF 2 * r > b \/ (2 * r = b /\ q % 2 = 1) THEN q + 1 ELSE q

\* price * (1 + percentage_spread)
MulUp(q) == q + RoundDiv(q * SpreadNum, SpreadDen)
\* price * (1 - percentage_spread)
MulDown(q) == q - RoundDiv(q * SpreadNum, SpreadDen)

\* round(float(price), decimals): the nearest multiple of one tick
format_price(q) == RoundDiv(q, Sub) * Sub


\* calculate_order_prices_buy: [format_price(price * (1 - spread)^i) : i in 0..n-1]
RECURSIVE LadderDown(_, _)
LadderDown(q, n) ==
    IF n = 0 THEN << >> ELSE << format_price(q) >> \o LadderDown(MulDown(q), n - 1)

calculate_order_prices_buy(price, n) == LadderDown(price, n)

\* bot/helpers.py: the long-bias seeding ladder, same shape
calculate_order_prices(price, n) == LadderDown(price, n)

\* calculate_order_prices_sell: the mirror image, factor 1 + spread
RECURSIVE LadderUp(_, _)
LadderUp(q, n) ==
    IF n = 0 THEN << >> ELSE << format_price(q) >> \o LadderUp(MulUp(q), n - 1)

calculate_order_prices_sell(price, n) == LadderUp(price, n)

\* format_quantity((amount * (1 - spread)) / p, amount_format), p > 0
SellAmount(p) ==
    RoundDiv(Notional * (SpreadDen - SpreadNum) * AmountScale * PriceScale,
             p \div (Sub \div SpreadDen))

\* format_quantity(amount / p, amount_format), p > 0
BuyAmount(p) ==
    RoundDiv(Notional * SpreadDen * AmountScale * PriceScale, p \div (Sub \div SpreadDen))

\* self.amount passed as the order amount (inverse rebalance)
RawAmount == Notional * AmountScale

\* format_quantity(amount / p / contract_size, amount_format), p a whole
\* number of ticks
SeedAmountBot(p) ==
    RoundDiv(Notional * ContractsPerUnit * AmountScale * PriceScale, p \div Sub)

\* price * (1 + percentage_spread * k) and price * (1 - percentage_spread * k)
StepUp(q, k) == q + RoundDiv(q * SpreadNum * k, SpreadDen)
StepDown(q, k) == q - RoundDiv(q * SpreadNum * k, SpreadDen)

(***************************************************************************)
(* Orders, events and create_order requests.                               *)
(***************************************************************************)
Order(i, s, p, a) == [id |-> i, side |-> s, price |-> p, amount |-> a]

Event(i, s, p, a, f, st, ps) ==
    [id |-> i, side |-> s, price |-> p, amount |-> a, filled |-> f,
     status |-> st, posSide |-> ps]

NoReq == [side |-> "none", amount |-> 0, price |-> 0]
Req(s, a, p) == [side |-> s, amount |-> a, price |-> p]

Opposite(s) == IF s = "buy" THEN "sell" ELSE "buy"

\* the side the variant seeds, and the side that answers it
PrimarySide(v) == IF v = "bot" THEN "buy" ELSE "sell"
CounterSide(v) == Opposite(PrimarySide(v))
\* posSide sent with every create_order of the variant ("none": no params)
BiasOf(v) == CASE v = "bot" -> "long" [] v = "inverse" -> "short" [] OTHER -> "none"

(***************************************************************************)
(* process_order up to its first await: the counter updates and the        *)
(* create_order request the event leads to (NoReq: none).                  *)
(***************************************************************************)
IsTerminalFill(e) ==
    e.status \in {"filled", "closed"} /\ e.filled = e.amount /\ e.amount > 0

Effect(ds, db, dp, r) == [sells |-> ds, buys |-> db, profit |-> dp, req |-> r]
NoEffect == Effect(0, 0, 0, NoReq)

\* a fill reaction that books the profit together with the sell it posts
process_order_profit_with_post(e) ==
    IF e.id = NoId THEN NoEffect
    ELSE IF ~IsTerminalFill(e) THEN NoEffect
    ELSE IF e.side = "sell"
         THEN Effect(1, 0, 0,
                     IF e.price # NoPrice
                     THEN Req("buy", e.filled, MulDown(e.price)) ELSE NoReq)
         ELSE IF e.price # NoPrice
              THEN Effect(0, 1, Notional * SpreadNum, Req("sell", e.filled, MulUp(e.price)))
              ELSE Effect(0, 1, 0, NoReq)

\* the reaction of bot_crypto without its `price is not None` tests
process_order_crypto_unguarded(e) ==
    IF e.id = NoId THEN NoEffect
    ELSE IF ~IsTerminalFill(e) THEN NoEffect
    ELSE IF e.side = "sell"
         THEN Effect(1, 0, 0, Req("buy", e.filled, e.price))
         ELSE Effect(0, 1, Notional * SpreadNum, Req("sell", e.filled, e.price))

process_order_crypto(e) ==
    IF e.id = NoId THEN NoEffect
    ELSE IF ~IsTerminalFill(e) THEN NoEffect
    ELSE IF e.side = "sell"
         THEN Effect(1, 0, 0,
                     IF e.price # NoPrice
                     THEN Req("buy", e.filled, MulDown(e.price)) ELSE NoReq)
         ELSE Effect(0, 1, Notional * SpreadNum,
                     IF e.price # NoPrice
                     THEN Req("sell", e.filled, MulUp(e.price)) ELSE NoReq)

process_order_inverse(e) ==
    IF e.id = NoId THEN NoEffect
    ELSE IF ~IsTerminalFill(e) THEN NoEffect
    ELSE IF e.side = "buy"
         THEN Effect(1, 0, 0,
                     IF e.price # NoPrice
                     THEN Req("sell", e.filled, MulDown(e.price)) ELSE NoReq)
         ELSE Effect(0, 1, Notional * SpreadNum,
                     IF e.price # NoPrice
                     THEN Req("buy", e.filled, MulUp(e.price)) ELSE NoReq)

\* a reaction that counts the fill only once its counter price is computed
process_order_bot_counts_late(e) ==
    IF e.filled # e.amount \/ e.price = NoPrice THEN NoEffect
    ELSE IF e.side = "buy"
         THEN Effect(0, 1, 0, Req("sell", e.amount, MulUp(e.price)))
         ELSE Effect(1, 0, 0, Req("buy", e.amount, MulDown(e.price)))

\* order['price'] * spread_multiplier raises on a missing price, after the
\* counter was incremented; the except clause swallows it
process_order_bot(e) ==
    IF e.filled # e.amount THEN NoEffect
    ELSE LET r == IF e.price = NoPrice THEN NoReq
                  ELSE IF e.side = "buy"
                       THEN Req("sell", e.amount, MulUp(e.price))
                       ELSE Req("buy", e.amount, MulDown(e.price))
         IN  IF e.side = "buy" THEN Effect(0, 1, 0, r) ELSE Effect(1, 0, 0, r)

process_order(v, e) ==
    CASE v = "bot_crypto" -> process_order_crypto(e)
      [] v = "inverse" -> process_order_inverse(e)
      [] OTHER -> process_order_bot(e)

(***************************************************************************)
(* Reading the open-order book.                                            *)
(***************************************************************************)
BuysOf(b) == {o \in b : o.side = "buy"}
SellsOf(b) == {o \in b : o.side = "sell"}

MaxPrice(S) == CHOOSE p \in {o.price : o \in S} : \A o \in S : o.price <= p
MinPrice(S) == CHOOSE p \in {o.price : o \in S} : \A o \in S : o.price >= p

\* fetch_open_orders lists the orders oldest first; sorted() is stable
Lowest(S) ==
    CHOOSE o \in S : \A x \in S : o.price < x.price \/ (o.price = x.price /\ o.id <= x.id)
Highest(S) ==
    CHOOSE o \in S : \A x \in S : o.price > x.price \/ (o.price = x.price /\ o.id <= x.id)

\* sorted(S, key=price)[:n]
RECURSIVE LowestN(_, _)
LowestN(S, n) ==
    IF n <= 0 \/ S = {} THEN << >>
    ELSE << Lowest(S) >> \o LowestN(S \ {Lowest(S)}, n - 1)

\* sorted(S, key=price, reverse=True)[:n]
RECURSIVE HighestN(_, _)
HighestN(S, n) ==
    IF n <= 0 \/ S = {} THEN << >>
    ELSE << Highest(S) >> \o HighestN(S \ {Highest(S)}, n - 1)

\* sorted(S, key=price)[-n:], in list order
Last(S) ==
    CHOOSE o \in S : \A x \in S : o.price > x.price \/ (o.price = x.price /\ o.id >= x.id)
RECURSIVE TopN(_, _)
TopN(S, n) ==
    IF n <= 0 \/ S = {} THEN << >>
    ELSE TopN(S \ {Last(S)}, n - 1) \o << Last(S) >>

(***************************************************************************)
(* Gateway requests of a rebalance pass.                                   *)
(***************************************************************************)
CancelOp(o) == [op |-> "cancel", id |-> o.id, side |-> o.side, amount |-> o.amount, price |-> o.price]
CreateOp(s, a, p) == [op |-> "create", id |-> NoId, side |-> s, amount |-> a, price |-> p]

Cancels(os) == [i \in 1..Len(os) |-> CancelOp(os[i])]

\* bot_crypto: the amount is computed from p before each create_order, and
\* the division raises on p = 0, which ends the loop (caught by the except)
RECURSIVE CreatesCrypto(_, _)
CreatesCrypto(side, ps) ==
    IF ps = << >> \/ Head(ps) = 0 THEN << >>
    ELSE << CreateOp(side, IF side = "sell" THEN SellAmount(Head(ps)) ELSE BuyAmount(Head(ps)),
                     Head(ps)) >>
         \o CreatesCrypto(side, Tail(ps))

\* inverse: self.amount at every price
CreatesInverse(side, ps) == [i \in 1..Len(ps) |-> CreateOp(side, RawAmount, ps[i])]

Creates(v, side, ps) ==
    IF v = "inverse" THEN CreatesInverse(side, ps) ELSE CreatesCrypto(side, ps)

max_diff(n) == Max2(1, n \div 5)

\* a trigger without the 10% band
MoreBuysThanSells(nb, ns) == nb > ns

\* num_buys > num_sells * 1.1
TooManyBuys(nb, ns) == 10 * nb > 11 * ns
\* the sell-side trigger without the 10% band
MoreSellsThanBuys(nb, ns, net) == ns > nb /\ net > nb

\* num_sells > num_buys * 1.1 and net_pos > num_buys
TooManySells(nb, ns, net) == 10 * ns > 11 * nb /\ net > nb

SellRef(sells) == IF sells # {} THEN MulUp(MaxPrice(sells)) ELSE 0
BuyRef(buys) == IF buys # {} THEN MulDown(MinPrice(buys)) ELSE 0

\* phase 1 of rebalance(): too many buys
PhaseA(v, n, snap) ==
    LET buys == BuysOf(snap)
        sells == SellsOf(snap)
        diff == Min2(Cardinality(buys) - Cardinality(sells), max_diff(n))
    IN  IF TooManyBuys(Cardinality(buys), Cardinality(sells))
        THEN Cancels(LowestN(buys, diff))
             \o Creates(v, "sell", calculate_order_prices_sell(SellRef(sells), diff))
        ELSE << >>

\* phase 2 of rebalance(): too many sells and net_pos allows buying
PhaseB(v, n, snap, net) ==
    LET buys == BuysOf(snap)
        sells == SellsOf(snap)
        nb == Cardinality(buys)
        diff == Min2(Min2(Cardinality(sells) - nb, net - nb), max_diff(n))
    IN  IF TooManySells(nb, Cardinality(sells), net)
        THEN Cancels(HighestN(sells, diff))
             \o Creates(v, "buy", calculate_order_prices_buy(BuyRef(buys), diff))
        ELSE << >>

\* a phase 3 that tops the book up by one order per pass
PhaseCOnePerPass(v, n, snap, final) ==
    LET total == Cardinality(final)
        ref == SellRef(IF v = "inverse" THEN SellsOf(final) ELSE SellsOf(snap))
    IN  IF total < n
        THEN Creates(v, "sell", calculate_order_prices_sell(ref, 1))
        ELSE IF total > n THEN Cancels(TopN(final, total - n))
        ELSE << >>

\* a phase 2 that counts the orders as phase 1 leaves them
BookAfterPlan(snap, plan) ==
    {o \in snap : \A i \in 1..Len(plan) : ~(plan[i].op = "cancel" /\ plan[i].id = o.id)}
    \cup {Order(0 - i, plan[i].side, plan[i].price, plan[i].amount) :
             i \in {j \in 1..Len(plan) : plan[j].op = "create"}}

\* the orders phase 2 counts: buy_orders and sell_orders of the fetch at the
\* start of the pass, whatever phase 1 (plan) has cancelled or posted since
PhaseBSnapshot(snap, plan) == snap

\* phase 3 of rebalance(): adjust the total to num_orders.  bot_crypto prices
\* the missing sells from the sell orders of the first fetch, inverse from
\* the second
PhaseC(v, n, snap, final) ==
    LET total == Cardinality(final)
        ref == SellRef(IF v = "inverse" THEN SellsOf(final) ELSE SellsOf(snap))
    IN  IF total < n
        THEN Creates(v, "sell", calculate_order_prices_sell(ref, n - total))
        ELSE IF total > n THEN Cancels(TopN(final, total - n))
        ELSE << >>


(***************************************************************************)
(* rebalance_grid of the long-bias manager: five fetches, each followed by *)
(* the cancels or creates decided on it.  net is net_pos as read after the *)
(* first fetch, e the order whose fill started the pass.                   *)
(***************************************************************************)
\* a rebalance_grid that only cancels: stages 2B and the last one post nothing
BotStageTrimOnly(k, e, b, net, n) ==
    LET sells == SellsOf(b)
        buys == BuysOf(b)
        ns == Cardinality(sells)
        nb == Cardinality(buys)
        max_sells_allowed == Max2(net, 0)
        desired_sell == Min2(n \div 2, max_sells_allowed)
        desired_buy == n - desired_sell
    IN  CASE k = 1 ->
              IF ns > max_sells_allowed
              THEN Cancels(HighestN(sells, ns - max_sells_allowed)) ELSE << >>
          [] k = 2 ->
              IF ns > desired_sell
              THEN Cancels(HighestN(sells, ns - desired_sell)) ELSE << >>
          [] k = 4 ->
              IF nb > desired_buy
              THEN Cancels(LowestN(buys, nb - desired_buy)) ELSE << >>
          [] OTHER -> << >>

BotStage(k, e, b, net, n) ==
    LET sells == SellsOf(b)
        buys == BuysOf(b)
        ns == Cardinality(sells)
        nb == Cardinality(buys)
        max_sells_allowed == Max2(net, 0)
        desired_sell == Min2(n \div 2, max_sells_allowed)
        desired_buy == n - desired_sell
    IN  CASE k = 1 ->
              IF ns > max_sells_allowed
              THEN Cancels(HighestN(sells, ns - max_sells_allowed)) ELSE << >>
          [] k = 2 ->
              IF ns > desired_sell
              THEN Cancels(HighestN(sells, ns - desired_sell)) ELSE << >>
          [] k = 3 ->
              IF ns < desired_sell
              THEN [i \in 1..(desired_sell - ns) |-> CreateOp("sell", e.amount, StepUp(e.price, i))]
              ELSE << >>
          [] k = 4 ->
              IF nb > desired_buy
              THEN Cancels(LowestN(buys, nb - desired_buy)) ELSE << >>
          [] OTHER ->
              IF nb < desired_buy
              THEN [i \in 1..(desired_buy - nb) |-> CreateOp("buy", e.amount, StepDown(e.price, i))]
              ELSE << >>

(***************************************************************************)
(* Bounds of the model.                                                    *)
(***************************************************************************)
\* venue fills, redeliveries and rebalance passes explored
MaxFills == 2
MaxRedeliver == 1
MaxPasses == 3
\* events one watch_orders call returns
MaxBatch == 1
\* ladder sizes
MaxNumOrders == 3
\* order updates pushed to a handler that is fed arbitrary updates
MaxEvents == 2
\* failures in a row of one subscription
MaxAttempts == 7
\* data_send calls
MaxPublish == 2

\* the mid price the ladder is seeded at: 100.00
SeedPrice == 100 * Unit

\* mid prices watch_bids_asks reports: none yet, 100.00, and 100.005 (a mid
\* between two ticks)
MidPrices == {0, SeedPrice, SeedPrice + Sub \div 2}

\* the price the short-bias supervisor passes to place_orders
HardCodedSeed == 87300 * Unit

\* check_prices: the argument of place_orders when the mid price is `mid`
SeedArgument(v, mid) == IF v = "inverse" THEN HardCodedSeed ELSE mid

\* place_orders: the create_order requests it issues, in order.  inverse
\* posts config['contracts'] per order, taken equal to the amount its
\* rebalance posts
place_orders(v, n, p) ==
    IF v = "bot"
    THEN LET ps == calculate_order_prices(p, n)
         IN  [i \in 1..n |-> Req("buy", SeedAmountBot(ps[i]), ps[i])]
    ELSE LET ps == calculate_order_prices_sell(p, n)
         IN  [i \in 1..n |->
                Req("sell", IF v = "inverse" THEN RawAmount ELSE SellAmount(ps[i]), ps[i])]

(***************************************************************************)
(* Order updates the Gateway may deliver.                                  *)
(***************************************************************************)
\* the price of the second rung of the seeded sell ladder: 100.50
EventPrice == calculate_order_prices_sell(SeedPrice, 2)[2]

\* << amount, filled >>
FillCases ==
    { << 0, 0 >>, << RawAmount, 0 >>, << RawAmount, RawAmount \div 2 >>, << RawAmount, RawAmount >> }

PosSides == {"long", "short"}

WellFormedEvents ==
    { Event(1, s, EventPrice, c[1], c[2], st, ps) :
        s \in Sides, c \in FillCases, st \in Statuses, ps \in PosSides }

\* terminal fills that lack their id or their price
DefectiveEvents ==
    { Event(NoId, s, EventPrice, RawAmount, RawAmount, "closed", ps) : s \in Sides, ps \in PosSides }
    \cup
    { Event(1, s, NoPrice, RawAmount, RawAmount, "closed", ps) : s \in Sides, ps \in PosSides }

EventSpace == WellFormedEvents \cup DefectiveEvents

\* terminal fills with id and price, as the venue emits them
BatchEvents ==
    { Event(i, s, EventPrice, RawAmount, RawAmount, "closed", "short") : i \in {1, 2}, s \in Sides }

(***************************************************************************)
(* State.                                                                  *)
(***************************************************************************)
VARIABLES
    variant,            \* which order manager runs
    audit,              \* whether the history variables are kept
    faulty,             \* whether Gateway calls may raise
    num_orders,         \* config['num_orders']
    total_sells_filled,
    total_buys_filled,
    match_profit,       \* in units of 1 / SpreadDen
    book,               \* the venue's open orders for the symbol
    nextId,             \* the id the venue gives the next order
    stream,             \* order updates the venue has emitted, not yet read
    delivered,          \* terminal updates already read (may be sent again)
    fills,              \* venue fills so far
    redelivered,        \* redeliveries so far
    sent,               \* arbitrary updates pushed so far
    hpc,                \* check_orders: "watch", "create", "sleep"
    hbatch,             \* events of the current batch still to process
    hreq,               \* the create_order request process_order awaits
    hlast,              \* events processed by the latest step, with effects
    hdone,              \* events process_order has been called with
    oattempts,          \* reconnect_attempts of check_orders
    owait,              \* wait_time of its latest backoff sleep
    ofails,             \* its failures since the last read that returned
    creating,           \* long bias: process_order tasks awaiting create_order
    lockq,              \* long bias: tasks at _rebalance_lock, the holder first
    rstage,             \* long bias: which fetch of rebalance_grid is current
    rnet,               \* long bias: net_pos read after the first fetch
    rpc,                \* rebalance: "idle", "ab", "c", "dead"; "fetch", "ops"
    rops,               \* requests the pass still has to issue
    rsnap,              \* open_orders of the first fetch of the pass
    passes,             \* rebalance passes finished
    lastExit,           \* book and net position at the latest pass exit
    prevExit,           \* the same at the pass exit before
    inpass,             \* rebalance passes in progress
    price,              \* self.price of the price watcher
    ppc,                \* check_prices: "load", "watch", "sleep", "seed", "dead"
    pattempts,          \* reconnect_attempts of check_prices
    pwait,              \* wait_time of its latest backoff sleep
    pfails,             \* its failures since the last read that returned
    all_ok,             \* BotMain.all_ok: the ladder has been seeded
    sops,               \* place_orders: create_order requests still to issue
    seedCalls,          \* calls of place_orders so far
    seedMid,            \* self.price when place_orders was called
    seedReqs,           \* create_order requests place_orders has issued
    gpc,                \* async_run: "gather", "closed"
    closes,             \* calls of BotMain.close so far
    mpc,                \* send_data: "sleep", "dead"
    published,          \* data_send calls that returned
    mfailed             \* data_send calls whose update_one raised

cfgVars == << variant, audit, faulty, num_orders >>
gridVars == << total_sells_filled, total_buys_filled, match_profit >>
venueVars == << book, nextId, stream, delivered, fills, redelivered, sent >>
hVars == << hpc, hbatch, hreq, hlast, hdone >>
oVars == << oattempts, owait, ofails >>
botVars == << creating, lockq, rstage, rnet >>
rVars == << rpc, rops, rsnap, passes, lastExit, prevExit, inpass >>
seedVars == << all_ok, sops, seedCalls, seedMid, seedReqs >>
pVars == << price, ppc, pattempts, pwait, pfails, seedVars >>
supVars == << gpc, closes, mpc, published, mfailed >>

vars == << cfgVars, gridVars, venueVars, hVars, oVars, botVars, rVars, pVars, supVars >>

\* net_pos as rebalance(), rebalance_grid() and print_stats() compute it
net_pos == IF variant = "bot" THEN total_buys_filled - total_sells_filled
           ELSE total_sells_filled - total_buys_filled

total_primary_filled == IF variant = "bot" THEN total_buys_filled ELSE total_sells_filled
total_counter_filled == IF variant = "bot" THEN total_sells_filled ELSE total_buys_filled

PrimaryOpen(b) == {o \in b : o.side = PrimarySide(variant)}
CounterOpen(b) == {o \in b : o.side = CounterSide(variant)}

(***************************************************************************)
(* The venue and the Gateway.  A request the venue receives is served; a   *)
(* Gateway call may raise instead when `faulty` holds.                     *)
(***************************************************************************)
\* what an awaited Gateway call may do
Outcomes == IF faulty THEN {"ok", "raise"} ELSE {"ok"}

\* exchange.create_order accepted: the order rests in the book
Place(b, id, r) == b \cup {Order(id, r.side, r.price, r.amount)}

FillEvent(o) == Event(o.id, o.side, o.price, o.amount, o.amount, "closed", BiasOf(variant))

\* a resting order executes in full; the venue emits its terminal update
\* (read by the short-bias watchers; the long-bias one is fed from EventSpace)
VenueFill ==
    /\ variant \in ShortVariants
    /\ fills < MaxFills
    /\ \E o \in book :
        /\ book' = book \ {o}
        /\ stream' = Append(stream, FillEvent(o))
    /\ fills' = fills + 1
    /\ UNCHANGED << cfgVars, supVars, gridVars, nextId, delivered, redelivered, sent >>
    /\ UNCHANGED << hVars, oVars, botVars, rVars, pVars >>

\* at-least-once delivery: a terminal update already read is sent again
Redeliver ==
    /\ redelivered < MaxRedeliver
    /\ \E e \in delivered : stream' = Append(stream, e)
    /\ redelivered' = redelivered + 1
    /\ UNCHANGED << cfgVars, supVars, gridVars, book, nextId, delivered, fills, sent >>
    /\ UNCHANGED << hVars, oVars, botVars, rVars, pVars >>

(***************************************************************************)
(* Order Watcher and Fill Handler (check_orders, process_order,            *)
(* create_order) of the short-bias managers: the events of a batch are     *)
(* processed one after the other, and control is given up only while       *)
(* exchange.create_order is awaited.                                       *)
(***************************************************************************)
Reaction(e, eff) == [ev |-> e, eff |-> eff]

Done(ds, db, dp, r, rest, log) ==
    [sells |-> ds, buys |-> db, profit |-> dp, req |-> r, rest |-> rest, log |-> log]

\* the for loop of check_orders from `batch` on, up to the first await
RECURSIVE RunBatch(_, _)
RunBatch(v, batch) ==
    IF batch = << >> THEN Done(0, 0, 0, NoReq, << >>, << >>)
    ELSE LET e == Head(batch)
             eff == process_order(v, e)
         IN  IF eff.req # NoReq
             THEN Done(eff.sells, eff.buys, eff.profit, eff.req, Tail(batch),
                       << Reaction(e, eff) >>)
             ELSE LET r == RunBatch(v, Tail(batch))
                  IN  Done(eff.sells + r.sells, eff.buys + r.buys, eff.profit + r.profit,
                           r.req, r.rest, << Reaction(e, eff) >> \o r.log)

\* a reaction without the try of process_order and of create_order
process_order_propagates(outcome) == outcome = "raise"

\* whether an exception raised while an event is reacted to leaves
\* process_order: exchange.create_order is wrapped by the try of create_order,
\* the whole reaction by the try of process_order
process_order_raises(outcome) == FALSE

\* the loop runs on; when the batch is done, reconnect_attempts = 0
HandlerRun(batch) ==
    LET r == RunBatch(variant, batch)
    IN  /\ total_sells_filled' = total_sells_filled + r.sells
        /\ total_buys_filled' = total_buys_filled + r.buys
        /\ match_profit' = match_profit + r.profit
        /\ hreq' = r.req
        /\ hbatch' = r.rest
        /\ hlast' = IF audit THEN r.log ELSE << >>
        /\ hdone' = IF audit THEN hdone + Len(r.log) ELSE 0
        /\ hpc' = IF r.req # NoReq THEN "create" ELSE "watch"
        /\ oattempts' = IF r.req # NoReq THEN oattempts ELSE 0

TerminalIn(batch) == {batch[i] : i \in {j \in 1..Len(batch) : batch[j].status \in {"filled", "closed"}}}

\* watch_orders returns the next updates of the stream
WatchOrdersReturn ==
    /\ variant \in ShortVariants
    /\ hpc = "watch"
    /\ stream # << >>
    /\ \E k \in 1..Min2(Len(stream), MaxBatch) :
        /\ HandlerRun(SubSeq(stream, 1, k))
        /\ stream' = SubSeq(stream, k + 1, Len(stream))
        /\ delivered' = delivered \cup TerminalIn(SubSeq(stream, 1, k))
    /\ ofails' = 0
    /\ UNCHANGED << cfgVars, supVars, book, nextId, fills, redelivered, sent, owait >>
    /\ UNCHANGED << botVars, rVars, pVars >>

\* watch_orders returns one update, whatever update the Gateway may deliver
Deliver ==
    /\ variant \in ShortVariants
    /\ hpc = "watch"
    /\ sent < MaxEvents
    /\ \E e \in EventSpace : HandlerRun(<< e >>)
    /\ sent' = sent + 1
    /\ ofails' = 0
    /\ UNCHANGED << cfgVars, supVars, book, nextId, stream, delivered, fills, redelivered, owait >>
    /\ UNCHANGED << botVars, rVars, pVars >>

\* watch_orders returns two terminal fills in one batch
DeliverBatch ==
    /\ variant \in ShortVariants
    /\ hpc = "watch"
    /\ sent + 2 <= MaxEvents
    /\ \E e1, e2 \in BatchEvents : HandlerRun(<< e1, e2 >>)
    /\ sent' = sent + 2
    /\ ofails' = 0
    /\ UNCHANGED << cfgVars, supVars, book, nextId, stream, delivered, fills, redelivered, owait >>
    /\ UNCHANGED << botVars, rVars, pVars >>

\* exchange.create_order of the Fill Handler returns or raises; the loop goes
\* on with the rest of the batch.  An exception that left process_order would
\* reach the except clause of check_orders
HandlerCreateReturn ==
    /\ hpc = "create"
    /\ \E out \in Outcomes :
        /\ book' = IF out = "ok" THEN Place(book, nextId, hreq) ELSE book
        /\ nextId' = IF out = "ok" THEN nextId + 1 ELSE nextId
        /\ IF process_order_raises(out)
           THEN /\ oattempts' = oattempts + 1
                /\ owait' = Min2(2 ^ (oattempts + 1), MaxBackoff)
                /\ hpc' = "sleep"
                /\ hbatch' = << >>
                /\ hreq' = NoReq
                /\ hlast' = << >>
                /\ UNCHANGED << gridVars, hdone >>
           ELSE /\ HandlerRun(hbatch)
                /\ UNCHANGED owait
    /\ UNCHANGED << cfgVars, supVars, stream, delivered, fills, redelivered, sent, ofails >>
    /\ UNCHANGED << botVars, rVars, pVars >>

\* watch_orders returns no order: `continue`, reconnect_attempts is kept
WatchOrdersEmpty ==
    /\ hpc = "watch"
    /\ ofails' = 0
    /\ UNCHANGED << cfgVars, supVars, gridVars, venueVars, hVars, oattempts, owait >>
    /\ UNCHANGED << botVars, rVars, pVars >>

\* watch_orders raises: the except clause counts the attempt and sleeps
WatchOrdersFail ==
    /\ hpc = "watch"
    /\ oattempts < MaxAttempts
    /\ oattempts' = oattempts + 1
    /\ owait' = Min2(2 ^ (oattempts + 1), MaxBackoff)
    /\ ofails' = ofails + 1
    /\ hpc' = "sleep"
    /\ UNCHANGED << cfgVars, supVars, gridVars, venueVars, hbatch, hreq, hlast, hdone >>
    /\ UNCHANGED << botVars, rVars, pVars >>

\* asyncio.sleep(wait_time) returns: the loop subscribes again
WatchOrdersWake ==
    /\ hpc = "sleep"
    /\ hpc' = "watch"
    /\ UNCHANGED << cfgVars, supVars, gridVars, venueVars, hbatch, hreq, hlast, hdone, oVars >>
    /\ UNCHANGED << botVars, rVars, pVars >>

(***************************************************************************)
(* Rebalancer (rebalance_loop and rebalance) of the short-bias managers.   *)
(* Each step is the return of one awaited Gateway call together with the   *)
(* code that runs up to the next await.                                    *)
(***************************************************************************)
Ids(b) == {o.id : o \in b}

ExitRecord(b, net) == [book |-> b, net |-> net]
NoExit == ExitRecord({}, 0)

PassExit(b) ==
    /\ rpc' = "idle"
    /\ rops' = << >>
    /\ rsnap' = {}
    /\ passes' = passes + 1
    /\ inpass' = inpass - 1
    /\ prevExit' = IF audit THEN lastExit ELSE NoExit
    /\ lastExit' = IF audit THEN ExitRecord(b, net_pos) ELSE NoExit

\* an exception that leaves rebalance() ends rebalance_loop, which has no
\* handler
PassRaises ==
    /\ rpc' = "dead"
    /\ rops' = << >>
    /\ inpass' = inpass - 1
    /\ UNCHANGED << rsnap, passes, lastExit, prevExit >>

\* the first fetch_open_orders returns: net_pos is read and phases 1 and 2
\* are decided on this snapshot
RebalanceFetch ==
    /\ variant \in ShortVariants
    /\ rpc = "idle"
    /\ passes < MaxPasses
    /\ rpc' = "ab"
    /\ inpass' = inpass + 1
    /\ rsnap' = book
    /\ rops' = PhaseA(variant, num_orders, book)
                \o PhaseB(variant, num_orders,
                          PhaseBSnapshot(book, PhaseA(variant, num_orders, book)), net_pos)
    /\ UNCHANGED << cfgVars, supVars, gridVars, venueVars, hVars, oVars, botVars, pVars >>
    /\ UNCHANGED << passes, lastExit, prevExit >>

\* the second fetch_open_orders returns, after the settle sleep
RebalanceRefetch ==
    /\ rpc = "ab"
    /\ rops = << >>
    /\ LET ops == PhaseC(variant, num_orders, rsnap, book)
       IN  IF ops = << >>
           THEN PassExit(book)
           ELSE /\ rpc' = "c"
                /\ rops' = ops
                /\ UNCHANGED << rsnap, passes, lastExit, prevExit, inpass >>
    /\ UNCHANGED << cfgVars, supVars, gridVars, venueVars, hVars, oVars, botVars, pVars >>

\* a fetch_open_orders of the pass raises: neither call is inside a try
RebalanceFetchFail ==
    /\ variant \in ShortVariants
    /\ faulty
    /\ \/ rpc = "idle" /\ passes < MaxPasses /\ inpass' = inpass /\ rpc' = "dead"
          /\ UNCHANGED << rops, rsnap, passes, lastExit, prevExit >>
       \/ rpc = "ab" /\ rops = << >> /\ PassRaises
    /\ UNCHANGED << cfgVars, supVars, gridVars, venueVars, hVars, oVars, botVars, pVars >>

\* the book after the venue has served the request
Served(b, id, op) ==
    IF op.op = "cancel" THEN {o \in b : o.id # op.id}
    ELSE Place(b, id, op)

\* whether a cancel_order that raised leaves rebalance(): bot_crypto wraps
\* every cancel_order in a try, inverse does not
cancel_raises(v) == v = "inverse"

\* a cancel_order or create_order of the pass returns or raises.  Cancelling
\* an order that is no longer open raises.  create_order catches what
\* exchange.create_order raises
RebalanceOp ==
    /\ rpc \in {"ab", "c"}
    /\ rops # << >>
    /\ \E out \in Outcomes :
       LET op == Head(rops)
           gone == op.op = "cancel" /\ op.id \notin Ids(book)
           failed == gone \/ out = "raise"
       IN  /\ book' = IF failed THEN book ELSE Served(book, nextId, op)
           /\ nextId' = IF op.op = "create" /\ ~failed THEN nextId + 1 ELSE nextId
           /\ IF failed /\ op.op = "cancel" /\ cancel_raises(variant)
              THEN PassRaises
              ELSE IF rpc = "c" /\ Tail(rops) = << >>
              THEN PassExit(book')
              ELSE /\ rops' = Tail(rops)
                   /\ UNCHANGED << rpc, rsnap, passes, lastExit, prevExit, inpass >>
    /\ UNCHANGED << cfgVars, supVars, gridVars, stream, delivered, fills, redelivered, sent >>
    /\ UNCHANGED << hVars, oVars, botVars, pVars >>

(***************************************************************************)
(* Order Watcher and Fill Handler of the long-bias manager.  check_orders  *)
(* starts one process_order task per order and subscribes again; a task    *)
(* gives up control while its create_order is awaited, while it waits for  *)
(* _rebalance_lock and at every Gateway call of rebalance_grid.            *)
(***************************************************************************)
Task(e, r) == [ev |-> e, req |-> r]

Without(s, i) == SubSeq(s, 1, i - 1) \o SubSeq(s, i + 1, Len(s))

\* watch_orders returns one update; its task runs up to its first await.
\* A missing price raises after the counter was incremented
BotDeliver ==
    /\ variant = "bot"
    /\ hpc = "watch"
    /\ sent < MaxEvents
    /\ \E e \in EventSpace :
        LET eff == process_order_bot(e)
        IN  /\ total_sells_filled' = total_sells_filled + eff.sells
            /\ total_buys_filled' = total_buys_filled + eff.buys
            /\ creating' = IF eff.req # NoReq THEN Append(creating, Task(e, eff.req)) ELSE creating
            /\ hlast' = IF audit THEN << Reaction(e, eff) >> ELSE << >>
    /\ hdone' = IF audit THEN hdone + 1 ELSE 0
    /\ sent' = sent + 1
    /\ oattempts' = 0
    /\ ofails' = 0
    /\ UNCHANGED << cfgVars, supVars, match_profit, book, nextId, stream, delivered, fills, redelivered >>
    /\ UNCHANGED << hpc, hbatch, hreq, owait, lockq, rstage, rnet, rVars, pVars >>

\* rebalance_grid without `async with self._rebalance_lock`
rebalance_lock_absent(held) == TRUE

\* asyncio.Lock: acquire() takes the lock at once when nobody holds it
rebalance_lock_free(held) == held = 0

\* create_order of a task returns or raises (create_order catches it); the
\* task enters rebalance_grid: it takes the lock if it is free and asks for
\* the open orders, or queues for it
BotCreateReturn ==
    /\ \E i \in 1..Len(creating), out \in Outcomes :
        /\ book' = IF out = "ok" THEN Place(book, nextId, creating[i].req) ELSE book
        /\ nextId' = IF out = "ok" THEN nextId + 1 ELSE nextId
        /\ lockq' = Append(lockq, creating[i].ev)
        /\ creating' = Without(creating, i)
    /\ IF rebalance_lock_free(inpass)
       THEN rpc' = "fetch" /\ rstage' = 1 /\ inpass' = inpass + 1
       ELSE UNCHANGED << rpc, rstage, inpass >>
    /\ UNCHANGED << cfgVars, supVars, gridVars, stream, delivered, fills, redelivered, sent >>
    /\ UNCHANGED << hVars, oVars, rnet, rops, rsnap, passes, lastExit, prevExit, pVars >>

\* the end of the pass: the lock is released and goes to the task that has
\* waited longest
BotPassEnd(b) ==
    /\ lockq' = Tail(lockq)
    /\ rstage' = IF Tail(lockq) = << >> THEN 0 ELSE 1
    /\ rpc' = IF Tail(lockq) = << >> THEN "idle" ELSE "fetch"
    /\ inpass' = IF Tail(lockq) = << >> THEN inpass - 1 ELSE inpass
    /\ rops' = << >>
    /\ passes' = passes + 1
    /\ prevExit' = IF audit THEN lastExit ELSE NoExit
    /\ lastExit' = IF audit THEN ExitRecord(b, net_pos) ELSE NoExit

\* the stage is over: the next fetch, or the end of the pass
BotAdvance(b) ==
    IF rstage < 5
    THEN /\ rstage' = rstage + 1
         /\ rpc' = "fetch"
         /\ rops' = << >>
         /\ UNCHANGED << lockq, passes, lastExit, prevExit, inpass >>
    ELSE BotPassEnd(b)

\* a fetch_open_orders of rebalance_grid returns, or raises into the except
\* clause that ends the pass
BotFetch ==
    /\ rpc = "fetch"
    /\ \E out \in Outcomes :
       LET net == IF rstage = 1 THEN net_pos ELSE rnet
           ops == BotStage(rstage, Head(lockq), book, net, num_orders)
       IN  IF out = "raise"
           THEN BotPassEnd(book) /\ UNCHANGED rnet
           ELSE /\ rnet' = net
                /\ IF ops = << >>
                   THEN BotAdvance(book)
                   ELSE /\ rpc' = "ops"
                        /\ rops' = ops
                        /\ UNCHANGED << lockq, rstage, passes, lastExit, prevExit, inpass >>
    /\ UNCHANGED << cfgVars, supVars, gridVars, venueVars, hVars, oVars, creating, rsnap, pVars >>

\* a cancel_order or create_order of rebalance_grid returns or raises; every
\* cancel_order is inside a try and create_order catches its own
BotOp ==
    /\ rpc = "ops"
    /\ \E out \in Outcomes :
        /\ book' = IF out = "ok" THEN Served(book, nextId, Head(rops)) ELSE book
        /\ nextId' = IF Head(rops).op = "create" /\ out = "ok" THEN nextId + 1 ELSE nextId
    /\ IF Tail(rops) = << >>
       THEN BotAdvance(book')
       ELSE /\ rops' = Tail(rops)
            /\ UNCHANGED << lockq, rstage, rpc, passes, lastExit, prevExit, inpass >>
    /\ UNCHANGED << cfgVars, supVars, gridVars, stream, delivered, fills, redelivered, sent >>
    /\ UNCHANGED << hVars, oVars, creating, rnet, rsnap, pVars >>

(***************************************************************************)
(* Price Watcher (check_prices) and the seeding of the ladder.  Every step *)
(* ends at the next await: watch_bids_asks, the sleep of the backoff, or a *)
(* create_order of place_orders.                                           *)
(***************************************************************************)
\* a seeding test that forgets all_ok
SeedDueWheneverPriced(ok, p) == p > 0

\* if not self.all_ok and self.price > 0
SeedDue(ok, p) == ~ok /\ p > 0

\* the top of the while loop, self.price being p
PriceLoop(p) ==
    IF SeedDue(all_ok, p)
    THEN /\ ppc' = "seed"
         /\ sops' = place_orders(variant, num_orders, SeedArgument(variant, p))
         /\ seedCalls' = seedCalls + 1
         /\ seedMid' = p
         /\ UNCHANGED << all_ok, seedReqs >>
    ELSE /\ ppc' = "watch"
         /\ UNCHANGED seedVars

\* load_markets returns, or raises: it is awaited outside the try
LoadMarkets ==
    /\ ppc = "load"
    /\ \E out \in Outcomes :
        IF out = "raise"
        THEN ppc' = "dead" /\ UNCHANGED seedVars
        ELSE PriceLoop(price)
    /\ UNCHANGED << price, pattempts, pwait, pfails >>
    /\ UNCHANGED << cfgVars, supVars, gridVars, venueVars, hVars, oVars, botVars, rVars >>

\* watch_bids_asks returns: the mid price is stored, reconnect_attempts = 0
PriceReturn ==
    /\ ppc = "watch"
    /\ \E m \in MidPrices : price' = m /\ PriceLoop(m)
    /\ pattempts' = 0
    /\ pfails' = 0
    /\ UNCHANGED pwait
    /\ UNCHANGED << cfgVars, supVars, gridVars, venueVars, hVars, oVars, botVars, rVars >>

\* watch_bids_asks raises: the except clause counts the attempt and sleeps
PriceFail ==
    /\ ppc = "watch"
    /\ pattempts < MaxAttempts
    /\ pattempts' = pattempts + 1
    /\ pwait' = Min2(2 ^ (pattempts + 1), MaxBackoff)
    /\ pfails' = pfails + 1
    /\ ppc' = "sleep"
    /\ UNCHANGED << price, seedVars >>
    /\ UNCHANGED << cfgVars, supVars, gridVars, venueVars, hVars, oVars, botVars, rVars >>

\* asyncio.sleep(wait_time) returns: the loop starts over
PriceWake ==
    /\ ppc = "sleep"
    /\ PriceLoop(price)
    /\ UNCHANGED << price, pattempts, pwait, pfails >>
    /\ UNCHANGED << cfgVars, supVars, gridVars, venueVars, hVars, oVars, botVars, rVars >>

\* a create_order of place_orders returns or raises (create_order catches
\* it); after the last one all_ok is set and the loop subscribes
SeedCreateReturn ==
    /\ ppc = "seed"
    /\ sops # << >>
    /\ \E out \in Outcomes :
        /\ book' = IF out = "ok" THEN Place(book, nextId, Head(sops)) ELSE book
        /\ nextId' = IF out = "ok" THEN nextId + 1 ELSE nextId
    /\ seedReqs' = Append(seedReqs, Head(sops))
    /\ sops' = Tail(sops)
    /\ all_ok' = (Tail(sops) = << >>)
    /\ ppc' = IF Tail(sops) = << >> THEN "watch" ELSE "seed"
    /\ UNCHANGED << price, pattempts, pwait, pfails, seedCalls, seedMid >>
    /\ UNCHANGED << cfgVars, supVars, gridVars, stream, delivered, fills, redelivered, sent >>
    /\ UNCHANGED << hVars, oVars, botVars, rVars >>

(***************************************************************************)
(* Metrics Publisher (send_data) and Supervisor (async_run, close).  The   *)
(* long-bias supervisor gathers check_prices and check_orders only.        *)
(***************************************************************************)
\* a data_send without the try around update_one
upsert_propagates(outcome) == outcome = "raise"

\* whether an exception raised by update_one leaves data_send: the call is
\* inside a try that logs it
upsert_raises(outcome) == FALSE

\* update_one of data_send returns or raises; send_data sleeps until the
\* next interval, or ends if the exception reaches it
MetricsPublish ==
    /\ variant # "bot"
    /\ mpc = "sleep"
    /\ published < MaxPublish
    /\ \E out \in Outcomes :
        /\ mfailed' = IF out = "raise" THEN mfailed + 1 ELSE mfailed
        /\ mpc' = IF upsert_raises(out) THEN "dead" ELSE "sleep"
        /\ published' = IF upsert_raises(out) THEN published ELSE published + 1
    /\ UNCHANGED << gpc, closes >>
    /\ UNCHANGED << cfgVars, gridVars, venueVars, hVars, oVars, botVars, rVars, pVars >>

\* data_send raises before its try (building the client): send_data ends
MetricsFail ==
    /\ variant # "bot"
    /\ faulty
    /\ mpc = "sleep"
    /\ mpc' = "dead"
    /\ UNCHANGED << gpc, closes, published, mfailed >>
    /\ UNCHANGED << cfgVars, gridVars, venueVars, hVars, oVars, botVars, rVars, pVars >>

\* a gather that would only hand on the exception of its first task
OnlyPriceWatcherRaises == ppc = "dead"

\* asyncio.gather hands the first exception of a task to async_run
GatherRaises == ppc = "dead" \/ rpc = "dead" \/ mpc = "dead"

\* async_run: except, then finally: close().  The other tasks are left as
\* they are
SupervisorClose ==
    /\ gpc = "gather"
    /\ GatherRaises
    /\ gpc' = "closed"
    /\ closes' = closes + 1
    /\ UNCHANGED << mpc, published, mfailed >>
    /\ UNCHANGED << cfgVars, gridVars, venueVars, hVars, oVars, botVars, rVars, pVars >>

(***************************************************************************)
(* Initial states.                                                         *)
(***************************************************************************)
\* the book after place_orders at the first mid price, every request served
SeedLadder(v, n) ==
    LET rs == place_orders(v, n, SeedArgument(v, SeedPrice))
    IN  {Order(i, rs[i].side, rs[i].price, rs[i].amount) : i \in 1..n}

\* the tasks at their first await, nothing in flight
Quiet ==
    /\ stream = << >>
    /\ delivered = {}
    /\ fills = 0
    /\ redelivered = 0
    /\ sent = 0
    /\ hpc = "watch"
    /\ hbatch = << >>
    /\ hreq = NoReq
    /\ hlast = << >>
    /\ hdone = 0
    /\ oattempts = 0
    /\ owait = 0
    /\ ofails = 0
    /\ creating = << >>
    /\ lockq = << >>
    /\ rstage = 0
    /\ rnet = 0
    /\ rpc = "idle"
    /\ rops = << >>
    /\ rsnap = {}
    /\ passes = 0
    /\ lastExit = NoExit
    /\ prevExit = NoExit
    /\ inpass = 0
    /\ pattempts = 0
    /\ pwait = 0
    /\ pfails = 0
    /\ gpc = "gather"
    /\ closes = 0
    /\ mpc = "sleep"
    /\ published = 0
    /\ mfailed = 0

\* check_prices after place_orders at the first mid price
AfterSeeding ==
    /\ price = SeedPrice
    /\ ppc = "watch"
    /\ all_ok = TRUE
    /\ sops = << >>
    /\ seedCalls = 1
    /\ seedMid = SeedPrice
    /\ seedReqs = place_orders(variant, num_orders, SeedArgument(variant, SeedPrice))

\* the engine of one of the managers `vs` right after seeding
SeededWith(vs, a, f) ==
    /\ variant \in vs
    /\ audit = a
    /\ faulty = f
    /\ num_orders \in 1..MaxNumOrders
    /\ total_sells_filled = 0
    /\ total_buys_filled = 0
    /\ match_profit = 0
    /\ book = SeedLadder(variant, num_orders)
    /\ nextId = num_orders + 1
    /\ Quiet
    /\ AfterSeeding

Seeded(vs, a) == SeededWith(vs, a, FALSE)

\* the engine of one of the managers `vs` when async_run starts its tasks
Unseeded(vs, a) ==
    /\ variant \in vs
    /\ audit = a
    /\ faulty = TRUE
    /\ num_orders \in 1..MaxNumOrders
    /\ total_sells_filled = 0
    /\ total_buys_filled = 0
    /\ match_profit = 0
    /\ book = {}
    /\ nextId = 1
    /\ Quiet
    /\ price = 0
    /\ ppc = "load"
    /\ all_ok = FALSE
    /\ sops = << >>
    /\ seedCalls = 0
    /\ seedMid = 0
    /\ seedReqs = << >>

(***************************************************************************)
(* The engine: Fill Handler and Rebalancer of a short-bias manager over a  *)
(* seeded ladder, the venue filling orders and redelivering updates.       *)
(***************************************************************************)
Init == Seeded(ShortVariants, FALSE)

NextOnce ==
    \/ VenueFill
    \/ WatchOrdersReturn
    \/ HandlerCreateReturn
    \/ RebalanceFetch
    \/ RebalanceRefetch
    \/ RebalanceOp

Next ==
    \/ NextOnce
    \/ Redeliver

Spec == Init /\ [][Next]_vars

\* every terminal update is delivered exactly once
SpecOnce == Init /\ [][NextOnce]_vars

(***************************************************************************)
(* The Rebalancer alone: passes over an arbitrary book and arbitrary fill  *)
(* counters, no fill arriving.                                             *)
(***************************************************************************)
\* open orders of one side and price in the initial book
MaxPerRung == 3
\* fill counters in the initial state
MaxCount == 3
\* ladder sizes
MaxLadder == 10

BookRungs ==
    { << "buy", 99 * Unit >>, << "buy", 98 * Unit >>,
      << "sell", 100 * Unit >>, << "sell", 101 * Unit >> }

RungIndex(r) ==
    CASE r = << "buy", 99 * Unit >> -> 0
      [] r = << "buy", 98 * Unit >> -> 1
      [] r = << "sell", 100 * Unit >> -> 2
      [] OTHER -> 3

\* the book holding cnt[r] orders at every rung r, ids 1, 2, ... rung by rung
BookOf(cnt) ==
    UNION { { Order(RungIndex(r) * MaxPerRung + k, r[1], r[2], RawAmount) : k \in 1..cnt[r] }
            : r \in BookRungs }

\* orders per side of the larger books, where the 10% band is more than
\* one order wide
BandSize == 10

\* nb buys from 99.00 down and ns sells from 100.00 up, one per price
BandBook(nb, ns) ==
    { Order(i, "buy", (100 - i) * Unit, RawAmount) : i \in 1..nb }
    \cup { Order(nb + j, "sell", (99 + j) * Unit, RawAmount) : j \in 1..ns }

InitRebalance ==
    /\ variant \in ShortVariants
    /\ audit = TRUE
    /\ faulty = FALSE
    /\ total_buys_filled \in 0..1
    /\ match_profit = total_buys_filled * Notional * SpreadNum
    /\ \/ /\ num_orders \in 1..MaxLadder
          /\ total_sells_filled \in 0..MaxCount
          /\ \E cnt \in [BookRungs -> 0..MaxPerRung] : book = BookOf(cnt)
          /\ nextId = 4 * MaxPerRung + 1
       \/ /\ num_orders \in {MaxLadder \div 2, MaxLadder}
          /\ total_sells_filled \in {0, BandSize + 2}
          /\ \E nb, ns \in BandSize..(BandSize + 2) : book = BandBook(nb, ns)
          /\ nextId = 2 * BandSize + 5
    /\ Quiet
    /\ AfterSeeding

NextRebalance ==
    \/ RebalanceFetch
    \/ RebalanceRefetch
    \/ RebalanceOp

SpecRebalance == InitRebalance /\ [][NextRebalance]_vars

(***************************************************************************)
(* The Fill Handler of a short-bias manager fed arbitrary order updates.   *)
(***************************************************************************)
InitFill == Seeded(ShortVariants, TRUE)

NextFill ==
    \/ Deliver
    \/ HandlerCreateReturn

SpecFill == InitFill /\ [][NextFill]_vars

(***************************************************************************)
(* The long-bias manager fed arbitrary order updates.                      *)
(***************************************************************************)
InitBot == Seeded({"bot"}, TRUE)

NextBot ==
    \/ BotDeliver
    \/ BotCreateReturn
    \/ BotFetch
    \/ BotOp

SpecBot == InitBot /\ [][NextBot]_vars

(***************************************************************************)
(* One fill reaction of the long-bias manager over an arbitrary book and   *)
(* arbitrary fill counters: the task is awaiting the create_order of its   *)
(* counter order and then runs rebalance_grid, every call succeeding and   *)
(* no other update arriving.                                               *)
(***************************************************************************)
InitBotPass ==
    /\ variant = "bot"
    /\ audit = TRUE
    /\ faulty = FALSE
    /\ num_orders \in 1..MaxLadder
    /\ total_buys_filled \in 0..MaxCount
    /\ total_sells_filled \in 0..MaxCount
    /\ match_profit = 0
    /\ \E cnt \in [BookRungs -> 0..MaxPerRung] : book = BookOf(cnt)
    /\ nextId = 4 * MaxPerRung + 1
    /\ stream = << >> /\ delivered = {} /\ fills = 0 /\ redelivered = 0 /\ sent = 1
    /\ hpc = "watch" /\ hbatch = << >> /\ hreq = NoReq /\ hlast = << >> /\ hdone = 0
    /\ oattempts = 0 /\ owait = 0 /\ ofails = 0
    /\ \E e \in BatchEvents :
          /\ e.id = 1
          /\ creating = << Task(e, process_order_bot(e).req) >>
    /\ lockq = << >> /\ rstage = 0 /\ rnet = 0
    /\ rpc = "idle" /\ rops = << >> /\ rsnap = {} /\ passes = 0
    /\ lastExit = NoExit /\ prevExit = NoExit /\ inpass = 0
    /\ pattempts = 0 /\ pwait = 0 /\ pfails = 0
    /\ gpc = "gather" /\ closes = 0 /\ mpc = "sleep" /\ published = 0 /\ mfailed = 0
    /\ AfterSeeding

NextBotPass ==
    \/ BotCreateReturn
    \/ BotFetch
    \/ BotOp

SpecBotPass == InitBotPass /\ [][NextBotPass]_vars

(***************************************************************************)
(* The two subscription loops of a short-bias engine with subscriptions    *)
(* that may fail, the venue filling orders.                                *)
(***************************************************************************)
NextBackoff ==
    \/ VenueFill
    \/ WatchOrdersReturn
    \/ HandlerCreateReturn
    \/ WatchOrdersEmpty
    \/ WatchOrdersFail
    \/ WatchOrdersWake
    \/ PriceReturn
    \/ PriceFail
    \/ PriceWake

SpecBackoff == Init /\ [][NextBackoff]_vars

(***************************************************************************)
(* The Fill Handlers of the three managers fed arbitrary order updates.    *)
(***************************************************************************)
InitHandlers == Seeded(Variants, TRUE)

NextHandlers ==
    \/ Deliver
    \/ HandlerCreateReturn
    \/ BotDeliver
    \/ BotCreateReturn
    \/ BotFetch
    \/ BotOp

SpecHandlers == InitHandlers /\ [][NextHandlers]_vars

(***************************************************************************)
(* The Fill Handlers with a Gateway whose calls may raise, the short-bias  *)
(* ones fed batches of two terminal fills.                                 *)
(***************************************************************************)
InitFault == SeededWith(Variants, TRUE, TRUE)

NextFault ==
    \/ DeliverBatch
    \/ HandlerCreateReturn
    \/ BotDeliver
    \/ BotCreateReturn
    \/ BotFetch
    \/ BotOp

SpecFault == InitFault /\ [][NextFault]_vars

(***************************************************************************)
(* The short-bias engine with a Gateway whose calls may raise.             *)
(***************************************************************************)
InitEngineFault == SeededWith(ShortVariants, TRUE, TRUE)

NextEngineFault ==
    \/ NextOnce
    \/ RebalanceFetchFail

SpecEngineFault == InitEngineFault /\ [][NextEngineFault]_vars

(***************************************************************************)
(* Start-up: the Price Watcher from load_markets on, seeding the ladder,   *)
(* with subscriptions and requests that may fail and fills arriving.  The  *)
(* supervisors in the sources are those of the bot and inverse managers.   *)
(***************************************************************************)
InitSeed == Unseeded({"bot", "inverse"}, TRUE)

NextSeed ==
    \/ LoadMarkets
    \/ PriceReturn
    \/ PriceFail
    \/ PriceWake
    \/ SeedCreateReturn
    \/ VenueFill
    \/ WatchOrdersReturn
    \/ HandlerCreateReturn

SpecSeed == InitSeed /\ [][NextSeed]_vars

(***************************************************************************)
(* The Supervisor and its tasks, the subscriptions never failing and no    *)
(* order filling (the Order Watcher stays in watch_orders).                 *)
(***************************************************************************)
InitSupervisor == Unseeded({"bot", "inverse"}, FALSE)

NextSupervisor ==
    \/ LoadMarkets
    \/ PriceReturn
    \/ SeedCreateReturn
    \/ RebalanceFetch
    \/ RebalanceFetchFail
    \/ RebalanceRefetch
    \/ RebalanceOp
    \/ MetricsPublish
    \/ MetricsFail
    \/ SupervisorClose

SpecSupervisor == InitSupervisor /\ [][NextSupervisor]_vars

\* async_run is a task of the event loop: it runs once gather has raised
SpecSupervisorLive == SpecSupervisor /\ WF_vars(SupervisorClose)

(***************************************************************************)
(* Rebalance passes of the three managers: the periodic loop of the        *)
(* short-bias ones, the fill-triggered rebalance_grid of the long-bias one.*)
(***************************************************************************)
InitPasses == Seeded(Variants, FALSE)

NextPasses ==
    \/ NextOnce
    \/ BotDeliver
    \/ BotCreateReturn
    \/ BotFetch
    \/ BotOp

SpecPasses == InitPasses /\ [][NextPasses]_vars

(***************************************************************************)
(* Claims.                                                                 *)
(***************************************************************************)
\* C1 (P1): in every reachable state total_primary_filled >= total_counter_filled,
\* also when the Gateway redelivers a terminal update.  Stated for bot_crypto,
\* whose primary side is sell.
C1_NetNonNegative ==
    variant = "bot_crypto" => total_sells_filled >= total_buys_filled

\* C2 (I1): at all times the number of open counter-side orders is at most
\* net = total_primary_filled - total_counter_filled, every terminal fill
\* being delivered exactly once.  Stated for bot_crypto (counter side: buy).
C2_CounterOpenWithinNet ==
    variant = "bot_crypto" => Cardinality(BuysOf(book)) <= total_sells_filled - total_buys_filled

\* C3 (P2): at the exit of every Rebalancer pass the number of open
\* counter-side orders is at most max(net, 0), net read at the exit, from any
\* book and counters the pass starts from.
C3_CounterCappedAtExit ==
    passes >= 1 => Cardinality(CounterOpen(lastExit.book)) <= Max2(lastExit.net, 0)

\* C4 (P3 / I2): when every Gateway call of a pass succeeds and nothing else
\* touches the book, the pass exits with exactly num_orders open orders,
\* whatever the book was at its start.
C4_TotalOpenAtExit ==
    passes >= 1 => Cardinality(lastExit.book) = num_orders

\* C5 (P4): in every reachable state match_profit equals
\* total_counter_filled * notional * spread: the two are updated together.
C5_ProfitTracksCounterFills ==
    variant \in ShortVariants => match_profit = total_counter_filled * Notional * SpreadNum

\* counter fills have been booked, the latest one reported without a price
C5_Witness ==
    /\ variant \in ShortVariants
    /\ total_counter_filled >= 2
    /\ match_profit > 0
    /\ \E i \in 1..Len(hlast) : hlast[i].ev.price = NoPrice /\ hlast[i].eff.buys = 1

\* C6 (P5): the counter order the Fill Handler submits in response to a
\* primary fill at price p is priced round(p * (1 + sign * spread),
\* price_decimals), sign = -1 for the short bias: a whole number of ticks.
C6_CounterPriceRounded ==
    \A i \in 1..Len(hlast) :
        hlast[i].ev.side = PrimarySide(variant) /\ hlast[i].eff.req # NoReq
            => hlast[i].eff.req.price = format_price(MulDown(hlast[i].ev.price))

\* two books hold the same orders (side, price, amount), ids put aside
Shape(o) == << o.side, o.price, o.amount >>
SameUpToIds(a, b) ==
    \A o \in a \cup b :
        Cardinality({x \in a : Shape(x) = Shape(o)}) = Cardinality({x \in b : Shape(x) = Shape(o)})

\* C7 (P6), as stated: a pass that follows another pass with no fill in
\* between leaves the open orders as the first pass left them, up to ids.
C7_SecondPassNoChange ==
    passes >= 2 => SameUpToIds(lastExit.book, prevExit.book)

\* a pass exit with the book in balance: buys <= 1.1 sells, and
\* sells <= 1.1 buys or net <= buys
InBalance(x) ==
    LET nb == Cardinality(BuysOf(x.book))
        ns == Cardinality(SellsOf(x.book))
    IN  /\ 10 * nb <= 11 * ns
        /\ 10 * ns <= 11 * nb \/ x.net <= nb

\* C7 (P6), amended: when the first pass exits with the book in balance, the
\* pass that follows with no fill in between leaves the open orders
\* unchanged up to ids.
C7_BalancedPassNoChange ==
    passes >= 2 /\ InBalance(prevExit) => SameUpToIds(lastExit.book, prevExit.book)

\* two passes have run, the first one created orders and left a book in balance
C7_Witness ==
    /\ passes >= 2
    /\ InBalance(prevExit)
    /\ \E o \in prevExit.book : o.id > 4 * MaxPerRung

\* C8 (P7): a subscription loop that sleeps after k failures in a row sleeps
\* min(2^k, 60) seconds, in the Order Watcher and in the Price Watcher.
C8_BackoffFollowsFailures ==
    /\ hpc = "sleep" => owait = Min2(2 ^ ofails, MaxBackoff)
    /\ ppc = "sleep" => pwait = Min2(2 ^ pfails, MaxBackoff)

\* C9: the fill reaction runs once for a delivered event with status filled
\* or closed and filled == amount > 0, and for any other delivered event no
\* counter changes and no order is posted.  Stated for events that carry an id.
C9_ReactsToTerminalFillsOnly ==
    \A i \in 1..Len(hlast) :
        hlast[i].ev.id # NoId =>
            IF IsTerminalFill(hlast[i].ev)
            THEN hlast[i].eff.sells + hlast[i].eff.buys = 1
            ELSE hlast[i].eff = NoEffect

\* C10: an event tagged with a position side other than the one the manager
\* trades (the posSide it sends with its orders) is not processed: no
\* counter changes, no profit is booked, no order is posted.
C10_OtherPositionSideIgnored ==
    BiasOf(variant) # "none" =>
        \A i \in 1..Len(hlast) :
            hlast[i].ev.posSide # BiasOf(variant) => hlast[i].eff = NoEffect


\* C11 (on_fill side mapping): in each manager a terminal fill on the side the
\* manager seeds adds 1 to total_primary_filled only and posts one counter
\* order of the filled amount one spread on the profitable side (above for
\* long, below for short); a terminal fill on the counter side adds 1 to
\* total_counter_filled and notional * spread to match_profit and posts one
\* primary order of the filled amount one spread back.
C11_FillSideMapping ==
    \A i \in 1..Len(hlast) :
        LET e == hlast[i].ev
            eff == hlast[i].eff
            primary == IF variant = "bot" THEN eff.buys ELSE eff.sells
            counter == IF variant = "bot" THEN eff.sells ELSE eff.buys
            out == IF variant = "bot" THEN MulUp(e.price) ELSE MulDown(e.price)
            back == IF variant = "bot" THEN MulDown(e.price) ELSE MulUp(e.price)
        IN  e.id # NoId /\ e.price # NoPrice /\ IsTerminalFill(e) =>
                IF e.side = PrimarySide(variant)
                THEN /\ primary = 1 /\ counter = 0 /\ eff.profit = 0
                     /\ eff.req = Req(CounterSide(variant), e.filled, out)
                ELSE /\ counter = 1 /\ primary = 0 /\ eff.profit = Notional * SpreadNum
                     /\ eff.req = Req(PrimarySide(variant), e.filled, back)

\* C12 (one-shot seeding): place_orders is called at most once, it has been
\* called exactly once whenever a mid price above 0 has been stored or all_ok
\* is set, and the mid price stored when it was called was above 0; price
\* updates, failed subscriptions, backoff sleeps and fills do not change this.
C12_SeededExactlyOnce ==
    /\ seedCalls <= 1
    /\ (all_ok \/ price > 0 \/ ppc = "seed") => seedCalls = 1
    /\ seedCalls = 1 => seedMid > 0

\* the ladder was seeded and the price subscription has failed since
C12_Witness ==
    /\ all_ok
    /\ seedCalls = 1
    /\ ppc = "watch"
    /\ pattempts >= 2

\* C13 (seeding shape): once seeding is over, place_orders has issued exactly
\* num_orders create_order requests, all on the side the manager seeds, the
\* i-th at round(m * (1 - sign * spread)^i) for i = 0 .. num_orders - 1, m
\* being the mid price stored when seeding was triggered (sign +1 for the long
\* manager, -1 for the short one), so strictly monotonic away from m.
C13_SeedingShape ==
    all_ok =>
        LET rungs == IF variant = "bot" THEN LadderDown(seedMid, num_orders)
                     ELSE LadderUp(seedMid, num_orders)
        IN  /\ Len(seedReqs) = num_orders
            /\ \A i \in 1..Len(seedReqs) :
                  /\ seedReqs[i].side = PrimarySide(variant)
                  /\ i <= num_orders => seedReqs[i].price = rungs[i]
            /\ \A i \in 1..(Len(seedReqs) - 1) :
                  IF variant = "bot" THEN seedReqs[i + 1].price < seedReqs[i].price
                  ELSE seedReqs[i + 1].price > seedReqs[i].price

\* C14 (the Fill Handler never surfaces errors): when create_order raises
\* while an event is reacted to, the exception does not leave process_order:
\* the Order Watcher is never in its backoff sleep, its reconnect attempt
\* counter stays 0, and every delivered event is processed, the rest of the
\* batch and the later batches included.
C14_HandlerSwallowsErrors ==
    /\ hpc # "sleep"
    /\ oattempts = 0
    /\ owait = 0
    /\ hdone + Len(hbatch) = sent

\* C14 witness: a batch of two fills of a short manager was processed to its
\* end although one of its two create_order calls raised.
C14_Witness ==
    /\ variant \in ShortVariants
    /\ faulty
    /\ hpc = "watch"
    /\ sent = 2
    /\ hdone = 2
    /\ nextId = num_orders + 2

\* C15 (fill without a price): a terminal fill that carries no price causes no
\* create_order request: the reaction computes none, the handler is not
\* waiting for one, and no task of the long manager holds one.
C15_NoPriceNoOrder ==
    \A i \in 1..Len(hlast) :
        LET e == hlast[i].ev
        IN  e.price = NoPrice /\ e.filled = e.amount =>
                /\ hlast[i].eff.req = NoReq
                /\ variant \in ShortVariants => hpc = "watch" /\ hreq = NoReq
                /\ \A j \in 1..Len(creating) : creating[j].ev.price # NoPrice

\* C15 witness: the terminal fill without a price was counted as a fill.
C15_Witness ==
    /\ Len(hlast) = 1
    /\ hlast[1].ev.price = NoPrice
    /\ hlast[1].ev.id # NoId
    /\ IsTerminalFill(hlast[1].ev)
    /\ hlast[1].eff.sells + hlast[1].eff.buys = 1
    /\ total_sells_filled + total_buys_filled >= 1

\* C16 (Gateway release): whichever loop ends the main run by raising
\* (load_markets failing, a rebalance pass raising, the metrics publisher
\* raising), close() of the Gateway is eventually invoked, and it is invoked
\* at most once in the run.
C16_GatewayReleased ==
    /\ [](closes <= 1)
    /\ (ppc = "dead" \/ rpc = "dead" \/ mpc = "dead") ~> (gpc = "closed" /\ closes = 1)

\* C16 witness: the Gateway was closed after a rebalance pass raised, the
\* price watcher and the metrics publisher being alive.
C16_Witness ==
    /\ gpc = "closed"
    /\ closes = 1
    /\ rpc = "dead"
    /\ ppc # "dead"
    /\ mpc # "dead"

\* C17 (sibling cancellation): once one loop has ended and the Gateway has
\* been closed, every sibling loop is cancelled: no sibling performs another
\* Gateway operation (watch, fetch, create, cancel) and none changes the grid
\* state.
C17_SiblingsCancelled ==
    [][gpc = "closed" =>
          UNCHANGED << gridVars, book, nextId, hVars, oVars, botVars, rVars, pVars, mpc, published >>]_vars

\* C18 (a failed REST call does not stop the Rebalancer): when
\* fetch_open_orders, cancel_order or create_order raises inside a pass, the
\* Rebalancer loop stays alive and runs later passes.  Stated for the manager
\* whose rebalance_loop is part of the sources.
C18_RebalancerSurvives ==
    variant = "inverse" => rpc # "dead"

\* C19 (single-flight passes): in no reachable state are two rebalance passes
\* in progress at once, neither for the periodic loop of the short managers
\* nor for rebalance_grid of the long manager, which every process_order task
\* enters after its create_order.
C19_SingleFlight ==
    /\ inpass <= 1
    /\ variant = "bot" => (inpass = 1 <=> lockq # << >>)

\* C19 witness: a pass of rebalance_grid is running while another task waits
\* for the lock.
C19_Witness ==
    /\ variant = "bot"
    /\ inpass = 1
    /\ Len(lockq) >= 2
    /\ rpc = "ops"

\* C20 (cooperative exclusion): there is no reachable state in which the Fill
\* Handler has incremented a fill counter, the create_order that goes with it
\* has not completed, and the Rebalancer is between the start and the end of
\* a pass (its snapshot taken, its net read).
C20_CooperativeExclusion ==
    ~(/\ variant \in ShortVariants
      /\ hpc = "create"
      /\ hreq # NoReq
      /\ inpass = 1
      /\ rpc \in {"ab", "c"})

\* C21 (arrival order): the reaction to a delivered terminal event (counter
\* update, its create_order and, for the long manager, its rebalance pass)
\* has completed before the reaction to the next delivered event begins: at
\* most one reaction is in progress at any time.
C21_ArrivalOrder ==
    IF variant = "bot"
    THEN Len(creating) + Len(lockq) <= 1
    ELSE hpc = "create" => hdone + Len(hbatch) = sent

\* C22 (a failed metrics write stays local): when the upsert of data_send
\* raises, the publisher goes on to its next interval, the Gateway is not
\* closed, the grid state is unchanged and the Price Watcher, the Order
\* Watcher and the Rebalancer are where they were.
C22_MetricsFailureIsLocal ==
    [][mfailed' # mfailed =>
          /\ mpc' = "sleep"
          /\ UNCHANGED << gridVars, venueVars, hVars, oVars, botVars, rVars, pVars, gpc, closes >>]_vars

\* C22 witness: after an upsert raised, data_send was called again and the
\* Gateway is open, with the ladder seeded and a rebalance pass finished.
C22_Witness ==
    /\ mfailed >= 1
    /\ published = 2
    /\ gpc = "gather"
    /\ mpc = "sleep"
    /\ all_ok
    /\ passes >= 1

\* C23 (round trip): after a primary order at a rung price p has filled and
\* its counter order, posted one spread from p, has filled too, the replenish
\* order the Fill Handler posts is back at the vacated rung: its price,
\* rounded to price_decimals, is p.  Stated over a seeded ladder without
\* rebalance passes, where every counter order answers a seeded rung.
C23_RoundTripRestoresRung ==
    hpc = "create" /\ hreq.side = PrimarySide(variant) =>
        \E i \in 1..Len(seedReqs) : format_price(hreq.price) = seedReqs[i].price

\* C24 (convergence): with no fill, no other change and no failing call,
\* repeated passes reach a book that a pass leaves alone; in particular they
\* do not alternate forever between phase A in one pass and phase B in the
\* next.  A pass is a function of the book and of the counters, so a
\* Rebalancer that converges never comes back to a book it has left: no pass
\* ends with the book of the exit before the previous one, having changed it
\* in between.
C24_NoReturnToBookLeft ==
    [][passes' = passes + 1 /\ passes >= 2 =>
          ~(/\ SameUpToIds(prevExit.book, lastExit'.book)
            /\ ~SameUpToIds(lastExit.book, lastExit'.book))]_vars

\* C25 (phase A): on the snapshot taken at the start of a pass, phase A acts
\* if and only if num_counter_open > 1.1 * num_primary_open; it then requests
\* the cancellation of exactly
\* diff = min(num_counter_open - num_primary_open, max(1, num_orders div 5))
\* counter-side orders, the ones farthest from the mid: the lowest-priced
\* buys of a short grid.
C25_PhaseACancels ==
    [][rpc = "idle" /\ rpc' = "ab" =>
          LET snap == rsnap'
              counters == {o \in snap : o.side = "buy"}
              nc == Cardinality(counters)
              np == Cardinality({o \in snap : o.side = "sell"})
              diff == Min2(nc - np, Max2(1, num_orders \div 5))
              cancels == {i \in 1..Len(rops') : rops'[i].op = "cancel" /\ rops'[i].side = "buy"}
              ids == {rops'[i].id : i \in cancels}
          IN  IF 10 * nc > 11 * np
              THEN /\ Cardinality(cancels) = diff
                   /\ Cardinality(ids) = diff
                   /\ ids \subseteq {o.id : o \in counters}
                   /\ \A c \in counters : \A o \in counters :
                         c.id \in ids /\ o.id \notin ids => c.price <= o.price
              ELSE /\ cancels = {}
                   /\ \A i \in 1..Len(rops') : ~(rops'[i].op = "create" /\ rops'[i].side = "sell")]_vars

\* C25 witness: phase A has acted on a book of 12 buys and 10 sells, the
\* per-pass cap and not the difference deciding how many buys it cancels.
C25_Witness ==
    /\ rpc = "ab"
    /\ book = rsnap
    /\ Cardinality(BuysOf(rsnap)) = 12
    /\ Cardinality(SellsOf(rsnap)) = 10
    /\ num_orders = 5
    /\ Len(rops) >= 1
    /\ rops[1].op = "cancel"
    /\ rops[1].side = "buy"
    /\ rops[1].price = MinPrice(BuysOf(rsnap))

\* C26 (phase A placement): whenever phase A cancels diff counter-side orders
\* it posts exactly diff new primary-side orders, each priced strictly beyond
\* the farthest existing primary rung (above the highest open sell of a short
\* grid) and each beyond the one before it.
C26_PhaseAPlaces ==
    [][rpc = "idle" /\ rpc' = "ab" =>
          LET sells == {o \in rsnap' : o.side = "sell"}
              cancels == {i \in 1..Len(rops') : rops'[i].op = "cancel" /\ rops'[i].side = "buy"}
              creates == {i \in 1..Len(rops') : rops'[i].op = "create" /\ rops'[i].side = "sell"}
          IN  cancels # {} =>
                 /\ Cardinality(creates) = Cardinality(cancels)
                 /\ \A i \in creates : \A o \in sells : rops'[i].price > o.price
                 /\ \A i \in creates : \A j \in creates : i < j => rops'[i].price < rops'[j].price]_vars

\* C27 (phase B guard): on the snapshot taken at the start of a pass, phase B
\* acts if and only if num_primary_open > 1.1 * num_counter_open and
\* net > num_counter_open; when it acts it posts at most
\* diff = min(num_primary_open - num_counter_open, net - num_counter_open,
\* max(1, num_orders div 5)) counter-side orders, and it posts none when
\* net <= num_counter_open.
C27_PhaseBGuard ==
    [][rpc = "idle" /\ rpc' = "ab" =>
          LET snap == rsnap'
              nc == Cardinality({o \in snap : o.side = "buy"})
              np == Cardinality({o \in snap : o.side = "sell"})
              net == total_sells_filled - total_buys_filled
              diff == Min2(Min2(np - nc, net - nc), Max2(1, num_orders \div 5))
              cancels == {i \in 1..Len(rops') : rops'[i].op = "cancel" /\ rops'[i].side = "sell"}
              creates == {i \in 1..Len(rops') : rops'[i].op = "create" /\ rops'[i].side = "buy"}
          IN  IF 10 * np > 11 * nc /\ net > nc
              THEN /\ cancels # {}
                   /\ Cardinality(cancels) = diff
                   /\ Cardinality(creates) <= diff
              ELSE /\ cancels = {}
                   /\ creates = {}]_vars

\* C27 witness: phase B has acted on a snapshot where net - num_counter_open
\* is the smallest of the three terms of diff, and has posted a buy.
C27_Witness ==
    /\ variant = "bot_crypto"
    /\ rpc = "ab"
    /\ book = rsnap
    /\ LET nc == Cardinality(BuysOf(rsnap))
           np == Cardinality(SellsOf(rsnap))
           net == total_sells_filled - total_buys_filled
       IN  /\ nc >= 1
           /\ net - nc >= 1
           /\ net - nc < np - nc
           /\ net - nc < num_orders \div 5
           /\ Len(rops) = 2 * (net - nc)
           /\ rops[1].op = "cancel"
           /\ rops[1].side = "sell"
           /\ rops[Len(rops)].op = "create"
           /\ rops[Len(rops)].side = "buy"

\* C28 (phase B conservation): whenever phase B cancels diff primary-side
\* orders it posts exactly diff counter-side orders in the same pass, also
\* on a snapshot without any open counter-side order.
C28_PhaseBConserves ==
    [][rpc = "idle" /\ rpc' = "ab" =>
          LET cancels == {i \in 1..Len(rops') : rops'[i].op = "cancel" /\ rops'[i].side = "sell"}
              creates == {i \in 1..Len(rops') : rops'[i].op = "create" /\ rops'[i].side = "buy"}
          IN  Cardinality(creates) = Cardinality(cancels)]_vars

\* C29 (phase C top-up): when the book fetched after phases A and B holds
\* fewer than num_orders orders, phase C posts exactly the missing number of
\* orders, all on the primary side, each priced beyond the one before it and
\* all beyond the farthest primary rung of that refetched book.
C29_TopUpBeyondCurrentBook ==
    [][rpc = "ab" /\ rops = << >> /\ rpc' # "ab" /\ Cardinality(book) < num_orders =>
          /\ rpc' = "c"
          /\ Len(rops') = num_orders - Cardinality(book)
          /\ \A i \in 1..Len(rops') :
                /\ rops'[i].op = "create"
                /\ rops'[i].side = "sell"
                /\ \A o \in book : o.side = "sell" => rops'[i].price > o.price
                /\ i > 1 => rops'[i].price > rops'[i - 1].price]_vars

\* C30 (per-pass churn cap): the requests one pass issues stay within
\* max(1, num_orders div 5), all three phases counted.  Stated when the
\* second fetch of the pass returns: the cancels phases A and B issued on
\* the pass-start snapshot plus the cancels phase C decides are within the
\* cap, and so are the creates phase C decides, which are part of the
\* creates of the pass.
C30_ChurnCap ==
    [][rpc = "ab" /\ rops = << >> /\ rpc' # "ab" =>
          LET cap == Max2(1, num_orders \div 5)
              nb == Cardinality({o \in rsnap : o.side = "buy"})
              ns == Cardinality({o \in rsnap : o.side = "sell"})
              net == total_sells_filled - total_buys_filled
              cancelsAB ==
                  IF 10 * nb > 11 * ns THEN Min2(nb - ns, cap)
                  ELSE IF 10 * ns > 11 * nb /\ net > nb THEN Min2(Min2(ns - nb, net - nb), cap)
                  ELSE 0
              cancelsC == Cardinality({i \in 1..Len(rops') : rops'[i].op = "cancel"})
              createsC == Cardinality({i \in 1..Len(rops') : rops'[i].op = "create"})
          IN  /\ cancelsAB + cancelsC <= cap
              /\ createsC <= cap]_vars

\* C31 (backoff reset): in each subscription loop a read that returns without
\* raising, an empty batch of orders included, resets the loop's attempt
\* counter, so that the first failure after a successful read is followed by
\* a sleep of min(2^1, 60) = 2 seconds; and a step that changes the attempt
\* counter of one loop leaves the counter of the other loop alone.
C31_BackoffReset ==
    [][/\ hpc' = "sleep" /\ ofails' = 1 => owait' = 2
       /\ ppc' = "sleep" /\ pfails' = 1 => pwait' = 2
       /\ oattempts' # oattempts => pattempts' = pattempts
       /\ pattempts' # pattempts => oattempts' = oattempts]_vars

\* C32 (skipped operations): when the Fill Handler skips an event under a
\* business-logic guard, a terminal fill that carries no price or an order
\* event without an id, total_primary_filled, total_counter_filled and
\* match_profit have the same values after the event as before it.
C32_SkippedLeavesGridState ==
    [][/\ variant \in ShortVariants
       /\ sent' = sent + 1
       /\ Len(hlast') = 1
       /\ \/ hlast'[1].ev.id = NoId
          \/ /\ hlast'[1].ev.price = NoPrice
             /\ hlast'[1].ev.status \in {"filled", "closed"}
             /\ hlast'[1].ev.filled = hlast'[1].ev.amount
             /\ hlast'[1].ev.amount > 0
       => /\ total_sells_filled' = total_sells_filled
          /\ total_buys_filled' = total_buys_filled
          /\ match_profit' = match_profit]_vars

\* C33 (long-bias fill-triggered rebalance): when a rebalance_grid pass has
\* run with every Gateway call succeeding and no other fill reaction in
\* between, the book at its exit holds
\* desired_sell = min(num_orders div 2, max(total_buys_filled - total_sells_filled, 0))
\* sells and num_orders - desired_sell buys: num_orders orders in all, and no
\* more sells than max(net, 0).
C33_BotPassExitCounts ==
    passes = 1 /\ rpc = "idle" =>
        LET net == total_buys_filled - total_sells_filled
            desired_sell == Min2(num_orders \div 2, Max2(net, 0))
            ns == Cardinality({o \in book : o.side = "sell"})
            nb == Cardinality({o \in book : o.side = "buy"})
        IN  /\ ns = desired_sell
            /\ nb = num_orders - desired_sell
            /\ ns + nb = num_orders
            /\ ns <= Max2(net, 0)
            /\ lastExit.book = book

\* C33 witness: a pass has ended on a ladder of 5 with net position 3: two
\* sells are open, and rebalance_grid has posted at least one order besides
\* the counter order of the fill.
C33_Witness ==
    /\ variant = "bot"
    /\ passes = 1
    /\ rpc = "idle"
    /\ num_orders = 5
    /\ total_buys_filled - total_sells_filled = 3
    /\ Cardinality(SellsOf(book)) = 2
    /\ Cardinality(BuysOf(book)) = 3
    /\ nextId >= 4 * MaxPerRung + 3

\* C34 (phases A and B exclude each other): both triggers are evaluated on
\* the counts of the snapshot taken at the start of the pass, so no pass
\* cancels counter-side orders in phase A and primary-side orders in phase B,
\* whatever the snapshot, a side without orders included; no pass posts
\* orders for both phases either.
C34_PhasesExclusive ==
    [][rpc = "idle" /\ rpc' = "ab" =>
          LET buyCancels == {i \in 1..Len(rops') : rops'[i].op = "cancel" /\ rops'[i].side = "buy"}
              sellCancels == {i \in 1..Len(rops') : rops'[i].op = "cancel" /\ rops'[i].side = "sell"}
              sellCreates == {i \in 1..Len(rops') : rops'[i].op = "create" /\ rops'[i].side = "sell"}
              buyCreates == {i \in 1..Len(rops') : rops'[i].op = "create" /\ rops'[i].side = "buy"}
          IN  /\ buyCancels = {} \/ sellCancels = {}
              /\ buyCancels # {} => buyCreates = {}
              /\ sellCancels # {} => sellCreates = {}]_vars

\* C34 witness: phase B has acted on a snapshot without any open buy, and
\* nothing else was decided in the pass.
C34_Witness ==
    /\ rpc = "ab"
    /\ book = rsnap
    /\ BuysOf(rsnap) = {}
    /\ Cardinality(SellsOf(rsnap)) >= 2
    /\ Len(rops) >= 1
    /\ \A i \in 1..Len(rops) : rops[i].side = "sell" => rops[i].op = "cancel"
    /\ rops[1].op = "cancel"
    /\ rops[1].side = "sell"

\* C35 (no order at a price <= 0): no create_order request is submitted with
\* a price of 0 or less, in any phase of a pass, in the fill reaction or in
\* seeding, also when the side that gives the reference price has no open
\* order or the book is empty.
C35_NoOrderAtPriceZero ==
    /\ \A i \in 1..Len(rops) : rops[i].op = "create" => rops[i].price > 0
    /\ \A i \in 1..Len(sops) : sops[i].price > 0
    /\ hpc = "create" => hreq.price > 0
    /\ \A o \in book : o.price > 0

\* C36 (no lost fill count): in the long-bias manager, whose Order Watcher
\* starts one process_order task per delivered order, every delivered event
\* with filled == amount adds exactly one to total_buys_filled +
\* total_sells_filled, and no other step of any task (the return of a
\* create_order, the hand-over of the rebalance lock, a fetch or a cancel)
\* changes the two counters: when all tasks have finished their sum is the
\* number of such events.
C36_NoLostFillCount ==
    [][variant = "bot" =>
          LET before == total_buys_filled + total_sells_filled
              after == total_buys_filled' + total_sells_filled'
          IN  IF sent' = sent + 1
              THEN /\ Len(hlast') = 1
                   /\ after - before =
                        IF hlast'[1].ev.filled = hlast'[1].ev.amount THEN 1 ELSE 0
              ELSE after = before]_vars

\* C36 witness: two fills were delivered and counted, their two tasks ran
\* at the same time, and both have finished their rebalance_grid pass.
C36_Witness ==
    /\ variant = "bot"
    /\ sent = 2
    /\ total_buys_filled + total_sells_filled = 2
    /\ creating = << >>
    /\ lockq = << >>
    /\ passes = 2
    /\ rpc = "idle"

\* C37 (no pass before seeding): whatever the order of the first valid price
\* and the end of the Rebalancer's warm-up, a pass issues a create or a
\* cancel request only after place_orders has completed: no request of a
\* pass is pending while the ladder is not yet, or only partly, seeded.
C37_NoPassBeforeSeeded ==
    variant \in ShortVariants /\ rpc \in {"ab", "c"} /\ rops # << >> => all_ok

\* C38 (no duplicate rungs from one pass): when a pass ends, every call
\* having succeeded and no fill having arrived, no order the pass has
\* created has the side and the price of another order open at that moment,
\* be it created by the same pass or older; in particular the top-up of
\* phase C does not repeat a price phase A has posted in the same pass.
C38_NoDuplicateRung ==
    [][passes' = passes + 1 =>
          \A o \in book' :
              o.id \notin {s.id : s \in rsnap} =>
                  \A x \in book' : x.id # o.id => ~(x.side = o.side /\ x.price = o.price)]_vars
====
